---- MODULE Spec2Model ----
(***************************************************************************)
(* Model of src/my_data_model/main.py: PostgresSchemaExtractor and main(). *)
(*                                                                         *)
(* The database catalog is the environment.  It is the variable db, drawn  *)
(* in Init from bounded sets and never changed by the program.  Every      *)
(* catalog call either returns what db holds or raises.                    *)
(*                                                                         *)
(* Python values are modelled as follows.  A dict is a function from its   *)
(* keys to its values, a list is a sequence, a pydantic model is a record. *)
(* An Optional value is None (the empty sequence) or Some(v) (<<v>>).      *)
(* Objects are held by value: the program never writes to an object after  *)
(* it has stored it in a container, so no write is lost by this.           *)
(***************************************************************************)
EXTENDS Integers, Sequences, FiniteSets, TLC

\* ------------------------------------------------------------ bounds ----
MaxSchemas == 2
MaxTables == 2
MaxRows == 2

\* ----------------------------------------------------------- helpers ----
None == <<>>
Some(v) == <<v>>

Range(s) == {s[i] : i \in DOMAIN s}

Last(s) == s[Len(s)]

SeqsUpTo(S, n) == UNION {[1..k -> S] : k \in 0..n}

DistinctSeqsUpTo(S, n) ==
    {s \in SeqsUpTo(S, n) : \A i, j \in DOMAIN s : s[i] = s[j] => i = j}

EmptyDict == [k \in {} |-> k]

\* d[k] = v of a Python dict
Put(d, k, v) == [x \in DOMAIN d \cup {k} |-> IF x = k THEN v ELSE d[x]]

\* ----------------------------------------------------- pydantic models ---
ForeignKey(target_table, target_column, constraint_name) ==
    [target_table |-> target_table, target_column |-> target_column,
     constraint_name |-> constraint_name]

Column(name, type, nullable, default, primary_key) ==
    [name |-> name, type |-> type, nullable |-> nullable, default |-> default,
     primary_key |-> primary_key, foreign_key |-> None]

Index(name, columns, unique, type) ==
    [name |-> name, columns |-> columns, unique |-> unique, type |-> Some(type)]

ReferencedBy(table, columns, constraint) ==
    [table |-> table, columns |-> columns, constraint |-> constraint]

Table ==
    [description |-> None, columns |-> EmptyDict, indexes |-> EmptyDict,
     referenced_by |-> EmptyDict]

Schema == [tables |-> EmptyDict]

DatabaseModel == [schemas |-> EmptyDict]

\* ------------------------------------------------ the catalog (inputs) ---
\* What the database can report.  A catalog is a record
\*   schemas : the list inspector.get_schema_names() returns
\*   tables  : for each non-system schema, the list get_table_names returns
\*   facts   : for each <<schema, table>>, the rows of the five lookups
SchemaNames == {"information_schema", "pg_catalog", "public", "sales"}

TableNames == {"orders", "customers"}

ColumnNames == {"id", "customer_id"}

\* rows of inspector.get_columns
ColumnRows ==
    {[name |-> "id", type |-> "INTEGER", nullable |-> FALSE,
      default |-> Some("nextval")],
     [name |-> "customer_id", type |-> "INTEGER", nullable |-> TRUE,
      default |-> None]}

\* rows of the foreign-key query: two constraints on customer_id, one on id
ForeignKeyRows ==
    {[column_name |-> "customer_id", target_table |-> "customers",
      target_column |-> "id", constraint_name |-> "fk_customer"],
     [column_name |-> "customer_id", target_table |-> "customers",
      target_column |-> "alt_id", constraint_name |-> "fk_customer_alt"],
     [column_name |-> "id", target_table |-> "accounts",
      target_column |-> "id", constraint_name |-> "fk_account"]}

\* dicts of inspector.get_indexes; type is the optional "type" key
IndexRows ==
    {[name |-> "PRIMARY", column_names |-> <<"id">>, unique |-> TRUE,
      type |-> None],
     [name |-> "orders_id_key", column_names |-> <<"id">>, unique |-> TRUE,
      type |-> None],
     [name |-> "orders_cust_idx", column_names |-> <<"customer_id", "id">>,
      unique |-> FALSE, type |-> Some("HASH")]}

\* rows of the reverse-reference query: two constraints from orders, one
\* from invoices
ReferencedByRows ==
    {[source_table |-> "orders", source_column |-> "id",
      constraint_name |-> "fk_customer"],
     [source_table |-> "orders", source_column |-> "alt_id",
      constraint_name |-> "fk_customer_alt"],
     [source_table |-> "invoices", source_column |-> "id",
      constraint_name |-> "fk_invoice_customer"]}

Facts(cols, pks, fks, idxs, refs) ==
    [columns |-> cols, primary_keys |-> pks, foreign_keys |-> fks,
     indexes |-> idxs, referenced_by |-> refs]

ColumnRow(n) == CHOOSE r \in ColumnRows : r.name = n

ForeignKeyRow(c) == CHOOSE r \in ForeignKeyRows : r.constraint_name = c

IndexRow(n) == CHOOSE r \in IndexRows : r.name = n

ReferencedByRow(c) == CHOOSE r \in ReferencedByRows : r.constraint_name = c

\* the two tables of the scenarios: orders(id pk, customer_id fk) with a
\* primary-key index and a unique index, customers referenced twice by orders
BaseFacts(t) ==
    IF t = "orders"
    THEN Facts(<<ColumnRow("id"), ColumnRow("customer_id")>>, <<"id">>,
               <<ForeignKeyRow("fk_customer")>>,
               <<IndexRow("PRIMARY"), IndexRow("orders_id_key")>>, <<>>)
    ELSE Facts(<<ColumnRow("id")>>, <<"id">>, <<>>,
               <<IndexRow("orders_cust_idx")>>,
               <<ReferencedByRow("fk_customer"),
                 ReferencedByRow("fk_customer_alt")>>)

\* the schemas PostgreSQL itself owns; what they hold is fixed
BuiltinSchemas == {"information_schema", "pg_catalog"}

\* the table lists of a schema list: any list for a listed user schema
TableListings(sl) ==
    {f \in [SchemaNames -> DistinctSeqsUpTo(TableNames, MaxTables)] :
        \A s \in SchemaNames :
            s \in BuiltinSchemas \/ s \notin Range(sl) => f[s] = <<"orders">>}

\* any schema list, any table lists, the two scenario tables
WideCatalogs ==
    UNION {{[schemas |-> sl, tables |-> tl,
             facts |-> [p \in SchemaNames \X TableNames |-> BaseFacts(p[2])]] :
                tl \in TableListings(sl)} :
           sl \in DistinctSeqsUpTo(SchemaNames, MaxSchemas)}

\* one schema, one table, whose facts differ from the scenario in the column
\* data (columns, primary keys, foreign keys), in the indexes or in the
\* reverse references
TableFacts ==
    LET b == BaseFacts("orders") IN
    {Facts(c, p, f, b.indexes, b.referenced_by) :
        c \in DistinctSeqsUpTo(ColumnRows, MaxRows),
        p \in DistinctSeqsUpTo(ColumnNames, MaxRows),
        f \in SeqsUpTo(ForeignKeyRows, MaxRows)}
    \cup {Facts(b.columns, b.primary_keys, b.foreign_keys, i, b.referenced_by) :
        i \in SeqsUpTo(IndexRows, MaxRows)}
    \cup {Facts(b.columns, b.primary_keys, b.foreign_keys, b.indexes, r) :
        r \in SeqsUpTo(ReferencedByRows, MaxRows)}

DeepCatalogs ==
    {[schemas |-> <<"pg_catalog", "public">>,
      tables |-> [s \in SchemaNames |-> <<"orders">>],
      facts |-> [p \in SchemaNames \X TableNames |->
                    IF p = <<"public", "orders">> THEN f ELSE BaseFacts(p[2])]] :
        f \in TableFacts}

Catalogs == WideCatalogs \cup DeepCatalogs

\* the exceptions the database driver can raise
Causes == {"OperationalError", "ProgrammingError"}

\* ------------------------------------------------- extraction, pure ------
\* s not in ("information_schema", "pg_catalog")
SystemSchemasOnlyInformation == {"information_schema"}

SystemSchemas == {"information_schema", "pg_catalog"}

FilterSchemas(names) == SelectSeq(names, LAMBDA s : s \notin SystemSchemas)

\* [row[0] for row in result]
GetPrimaryKeysResult(rows) == [i \in DOMAIN rows |-> rows[i]]

ForeignKeyColumn(row) == row.column_name

\* {row[0]: ForeignKey(row[1], row[2], row[3]) for row in result}: a later
\* row with the same key replaces an earlier one
GetForeignKeysResult(rows) ==
    [c \in {ForeignKeyColumn(rows[i]) : i \in DOMAIN rows} |->
        LET row == rows[CHOOSE i \in DOMAIN rows :
                            /\ ForeignKeyColumn(rows[i]) = c
                            /\ \A j \in DOMAIN rows :
                                  ForeignKeyColumn(rows[j]) = c => j <= i]
        IN  ForeignKey(row.target_table, row.target_column, row.constraint_name)]

ReferencingTable(row) == row.source_table

GetReferencedByResultFirstWins(rows) ==
    [t \in {ReferencingTable(rows[i]) : i \in DOMAIN rows} |->
        LET row == rows[CHOOSE i \in DOMAIN rows :
                            /\ ReferencingTable(rows[i]) = t
                            /\ \A j \in DOMAIN rows :
                                  ReferencingTable(rows[j]) = t => j >= i]
        IN  ReferencedBy(row.source_table, <<row.source_column>>,
                         row.constraint_name)]

\* {row[0]: ReferencedBy(table=row[0], columns=[row[1]], constraint=row[2])
\*  for row in result}
GetReferencedByResult(rows) ==
    [t \in {ReferencingTable(rows[i]) : i \in DOMAIN rows} |->
        LET row == rows[CHOOSE i \in DOMAIN rows :
                            /\ ReferencingTable(rows[i]) = t
                            /\ \A j \in DOMAIN rows :
                                  ReferencingTable(rows[j]) = t => j <= i]
        IN  ReferencedBy(row.source_table, <<row.source_column>>,
                         row.constraint_name)]

NewColumnFirstKeyOnly(col, pks) ==
    Column(col.name, col.type, col.nullable, col.default,
           pks # <<>> /\ col.name = pks[1])

\* Column(name=col["name"], type=str(col["type"]), nullable=col["nullable"],
\*        default=col["default"], primary_key=col["name"] in primary_keys)
\* The catalog row holds the type already rendered as text.
NewColumn(col, pks) ==
    Column(col.name, col.type, col.nullable, col.default,
           col.name \in Range(pks))

WithForeignKeyIfPrimary(col, fks) ==
    IF col.name \in DOMAIN fks /\ col.primary_key
    THEN [col EXCEPT !.foreign_key = Some(fks[col.name])]
    ELSE col

\* if col["name"] in foreign_keys: column.foreign_key = foreign_keys[col["name"]]
WithForeignKey(col, fks) ==
    IF col.name \in DOMAIN fks
    THEN [col EXCEPT !.foreign_key = Some(fks[col.name])]
    ELSE col

\* str.lower() on the index type labels
Lower(str) ==
    CASE str = "HASH" -> "hash"
      [] str = "BTREE" -> "btree"
      [] OTHER -> str

\* idx.get("type", "btree").lower()
IndexType(idx) == Lower(IF idx.type = None THEN "btree" ELSE idx.type[1])

KeepEveryIndex(idx) == TRUE

\* if idx["name"] != "PRIMARY"
KeepIndex(idx) == idx.name # "PRIMARY"

\* the loop over the indexes: table_model.indexes[idx["name"]] = index
RECURSIVE AddIndexes(_, _)
AddIndexes(indexes, rows) ==
    IF rows = <<>> THEN indexes
    ELSE LET idx == Head(rows)
             added == IF KeepIndex(idx)
                      THEN Put(indexes, idx.name,
                               Index(idx.name, idx.column_names, idx.unique,
                                     IndexType(idx)))
                      ELSE indexes
         IN  AddIndexes(added, Tail(rows))

\* ---------------------------------------------------------- errors ------
\* An exception in flight: its class, its message as the pieces it is
\* concatenated from, the exception it was raised while handling
\* (__context__) and the call that raised it.
Raised(type, msg, context, call) ==
    [type |-> type, msg |-> msg, context |-> context, call |-> call]

\* an exception of the driver, not wrapped
DriverError(cause, call) == Raised(cause, <<cause>>, None, call)

\* msg = ("Erro ao tentar obter os indices no catalogo para
\*         '{schema_name}.{table_name}'. " f"Exception: {e}")
\* The first literal is not an f-string: its braces are kept as written.
IndexErrorMessage(schema_name, table_name, e) ==
    <<"Erro ao tentar obter os indices no catalogo para '", "{schema_name}",
      ".", "{table_name}", "'. ", "Exception: ", e>>

\* msg = ("Erro ao tentar obter restricoes de integridade referencial "
\*        f"no catalogo para '{schema_name}.{table_name}'. Exception: {e}")
ReferencedByErrorMessage(schema_name, table_name, e) ==
    <<"Erro ao tentar obter restricoes de integridade referencial ",
      "no catalogo para '", schema_name, ".", table_name, "'. Exception: ", e>>

\* ------------------------------------------------------ serialization ----
\* model_dump_json(exclude_none=True): a field whose value is None is left
\* out, a present optional field is written as its value
DumpOptional(r, optional) ==
    [k \in {f \in DOMAIN r : f \in optional => r[f] # None} |->
        IF k \in optional THEN r[k][1] ELSE r[k]]

DumpColumn(c) == DumpOptional(c, {"default", "foreign_key"})

DumpIndex(i) == DumpOptional(i, {"type"})

DumpTable(t) ==
    DumpOptional(
        [description |-> t.description,
         columns |-> [c \in DOMAIN t.columns |-> DumpColumn(t.columns[c])],
         indexes |-> [i \in DOMAIN t.indexes |-> DumpIndex(t.indexes[i])],
         referenced_by |-> t.referenced_by],
        {"description"})

DumpSchema(s) == [tables |-> [t \in DOMAIN s.tables |-> DumpTable(s.tables[t])]]

ModelDumpJson(m) ==
    [schemas |-> [s \in DOMAIN m.schemas |-> DumpSchema(m.schemas[s])]]

\* ------------------------------------------------------------ state ------
VARIABLES
    db,             \* the catalog of the database the run reads
    pc,             \* the statement the run is at
    issued,         \* the catalog calls issued so far, oldest first
    database_model, \* extract_schema: database_model, returned to main
    schemas,        \* extract_schema: schemas
    si,             \* how many schemas the schema loop has taken
    schema_name,
    schema_model,
    tables,
    ti,             \* how many tables the table loop has taken
    table_name,
    table_model,
    columns,
    primary_keys,
    foreign_keys,
    ci,             \* how many columns the column loop has taken
    col,
    column,
    error,          \* the exception in flight, or None
    json_output,    \* main: json_output, or None
    file,           \* tmp/schema_documentation.json in this run
    exit_code,      \* the exit status once it is decided, or None
    close_calls,    \* how often extractor.close() has run
    session_open,
    engine_live

locals ==
    <<schemas, si, schema_name, schema_model, tables, ti, table_name,
      table_model, columns, primary_keys, foreign_keys, ci, col, column>>

outcome == <<json_output, file, exit_code, close_calls, session_open, engine_live>>

vars == <<db, pc, issued, database_model, locals, error, outcome>>

\* the statements of the body of "for table_name in tables", in order
TableStepsKeysSwapped ==
    <<"get_columns", "get_foreign_keys", "get_primary_keys", "for_column",
      "get_indexes", "get_referenced_by", "attach_table">>

TableStepsAttachEarly ==
    <<"get_columns", "get_primary_keys", "get_foreign_keys", "for_column",
      "get_indexes", "attach_table", "get_referenced_by">>

TableSteps ==
    <<"get_columns", "get_primary_keys", "get_foreign_keys", "for_column",
      "get_indexes", "get_referenced_by", "attach_table">>

\* the statements of the body of "for col in columns", in order
ColumnSteps == <<"new_column", "set_foreign_key", "insert_column">>

\* the statement after p in steps, or end after the last one
After(steps, p, end) ==
    LET i == CHOOSE k \in DOMAIN steps : steps[k] = p
    IN  IF i = Len(steps) THEN end ELSE steps[i + 1]

\* sys.exit(1)
ExitCodeOnError == 1

\* where control goes from sys.exit(1) inside try ... finally
OnSysExitSkipsFinally == "exit"

OnSysExit == "finally"

Call(op, s, t) == <<op, s, t>>

RaiseSkipsTable(e) ==
    /\ error' = Some(e)
    /\ pc' = IF e.call[1] \in {"get_indexes", "get_referenced_by"}
             THEN "for_table" ELSE "except"

\* an exception propagates to main's except clause
Raise(e) ==
    /\ error' = Some(e)
    /\ pc' = "except"

Init ==
    /\ db \in Catalogs
    /\ pc = "extract_schema"
    /\ issued = <<>>
    /\ database_model = DatabaseModel
    /\ schemas = <<>>
    /\ si = 0
    /\ schema_name = ""
    /\ schema_model = Schema
    /\ tables = <<>>
    /\ ti = 0
    /\ table_name = ""
    /\ table_model = Table
    /\ columns = <<>>
    /\ primary_keys = <<>>
    /\ foreign_keys = EmptyDict
    /\ ci = 0
    /\ col = None
    /\ column = None
    /\ error = None
    /\ json_output = None
    /\ file = [opened |-> FALSE, content |-> None]
    /\ exit_code = None
    /\ close_calls = 0
    /\ session_open = TRUE
    /\ engine_live = TRUE

\* ------------------------------------------------- extract_schema --------
\* database_model = DatabaseModel(); schemas = [s for s in
\* self.inspector.get_schema_names() if s not in (...)]
GetSchemaNames ==
    /\ pc = "extract_schema"
    /\ issued' = Append(issued, Call("get_schema_names", "", ""))
    /\ \/ /\ database_model' = DatabaseModel
          /\ schemas' = FilterSchemas(db.schemas)
          /\ si' = 0
          /\ pc' = "for_schema"
          /\ UNCHANGED error
       \/ /\ \E cause \in Causes :
                Raise(DriverError(cause, Call("get_schema_names", "", "")))
          /\ UNCHANGED <<database_model, schemas, si>>
    /\ UNCHANGED <<db, schema_name, schema_model, tables, ti, table_name,
                   table_model, columns, primary_keys, foreign_keys, ci, col,
                   column, outcome>>

\* for schema_name in schemas: schema_model = Schema();
\* tables = self.inspector.get_table_names(schema=schema_name)
ForSchema ==
    /\ pc = "for_schema"
    /\ si < Len(schemas)
    /\ si' = si + 1
    /\ schema_name' = schemas[si + 1]
    /\ schema_model' = Schema
    /\ issued' = Append(issued, Call("get_table_names", schema_name', ""))
    /\ \/ /\ tables' = db.tables[schema_name']
          /\ ti' = 0
          /\ pc' = "for_table"
          /\ UNCHANGED error
       \/ /\ \E cause \in Causes :
                Raise(DriverError(cause, Call("get_table_names", schema_name', "")))
          /\ UNCHANGED <<tables, ti>>
    /\ UNCHANGED <<db, database_model, schemas, table_name, table_model,
                   columns, primary_keys, foreign_keys, ci, col, column, outcome>>

\* the schema loop is exhausted: return database_model
ReturnModel ==
    /\ pc = "for_schema"
    /\ si = Len(schemas)
    /\ pc' = "model_dump_json"
    /\ UNCHANGED <<db, issued, database_model, locals, error, outcome>>

\* for table_name in tables: table_model = Table()
ForTable ==
    /\ pc = "for_table"
    /\ ti < Len(tables)
    /\ ti' = ti + 1
    /\ table_name' = tables[ti + 1]
    /\ table_model' = Table
    /\ pc' = TableSteps[1]
    /\ UNCHANGED <<db, issued, database_model, schemas, si, schema_name,
                   schema_model, tables, columns, primary_keys, foreign_keys,
                   ci, col, column, error, outcome>>

\* the table loop is exhausted:
\* database_model.schemas[schema_name] = schema_model
AttachSchema ==
    /\ pc = "for_table"
    /\ ti = Len(tables)
    /\ database_model' =
          [database_model EXCEPT !.schemas = Put(@, schema_name, schema_model)]
    /\ pc' = "for_schema"
    /\ UNCHANGED <<db, issued, locals, error, outcome>>

\* columns = self.inspector.get_columns(table_name, schema=schema_name)
GetColumns ==
    /\ pc = "get_columns"
    /\ issued' = Append(issued, Call("get_columns", schema_name, table_name))
    /\ \/ /\ columns' = db.facts[<<schema_name, table_name>>].columns
          /\ pc' = After(TableSteps, "get_columns", "for_table")
          /\ UNCHANGED error
       \/ /\ \E cause \in Causes :
                Raise(DriverError(cause, Call("get_columns", schema_name, table_name)))
          /\ UNCHANGED columns
    /\ UNCHANGED <<db, database_model, schemas, si, schema_name, schema_model,
                   tables, ti, table_name, table_model, primary_keys,
                   foreign_keys, ci, col, column, outcome>>

\* primary_keys = self._get_primary_keys(schema_name, table_name)
GetPrimaryKeys ==
    /\ pc = "get_primary_keys"
    /\ issued' = Append(issued, Call("get_primary_keys", schema_name, table_name))
    /\ \/ /\ primary_keys' = GetPrimaryKeysResult(
                                db.facts[<<schema_name, table_name>>].primary_keys)
          /\ pc' = After(TableSteps, "get_primary_keys", "for_table")
          /\ UNCHANGED error
       \/ /\ \E cause \in Causes :
                Raise(DriverError(cause,
                                  Call("get_primary_keys", schema_name, table_name)))
          /\ UNCHANGED primary_keys
    /\ UNCHANGED <<db, database_model, schemas, si, schema_name, schema_model,
                   tables, ti, table_name, table_model, columns, foreign_keys,
                   ci, col, column, outcome>>

\* foreign_keys = self._get_foreign_keys(schema_name, table_name)
GetForeignKeys ==
    /\ pc = "get_foreign_keys"
    /\ issued' = Append(issued, Call("get_foreign_keys", schema_name, table_name))
    /\ \/ /\ foreign_keys' = GetForeignKeysResult(
                                db.facts[<<schema_name, table_name>>].foreign_keys)
          /\ pc' = After(TableSteps, "get_foreign_keys", "for_table")
          /\ UNCHANGED error
       \/ /\ \E cause \in Causes :
                Raise(DriverError(cause,
                                  Call("get_foreign_keys", schema_name, table_name)))
          /\ UNCHANGED foreign_keys
    /\ UNCHANGED <<db, database_model, schemas, si, schema_name, schema_model,
                   tables, ti, table_name, table_model, columns, primary_keys,
                   ci, col, column, outcome>>

\* for col in columns: the loop is entered
ForColumn ==
    /\ pc = "for_column"
    /\ ci' = 0
    /\ pc' = "next_column"
    /\ UNCHANGED <<db, issued, database_model, schemas, si, schema_name,
                   schema_model, tables, ti, table_name, table_model, columns,
                   primary_keys, foreign_keys, col, column, error, outcome>>

\* for col in columns: the next column, or the end of the loop
NextColumn ==
    /\ pc = "next_column"
    /\ IF ci < Len(columns)
       THEN /\ ci' = ci + 1
            /\ col' = columns[ci + 1]
            /\ pc' = ColumnSteps[1]
       ELSE /\ pc' = After(TableSteps, "for_column", "for_table")
            /\ UNCHANGED <<ci, col>>
    /\ UNCHANGED <<db, issued, database_model, schemas, si, schema_name,
                   schema_model, tables, ti, table_name, table_model, columns,
                   primary_keys, foreign_keys, column, error, outcome>>

\* column = Column(...)
ConstructColumn ==
    /\ pc = "new_column"
    /\ column' = NewColumn(col, primary_keys)
    /\ pc' = After(ColumnSteps, "new_column", "next_column")
    /\ UNCHANGED <<db, issued, database_model, schemas, si, schema_name,
                   schema_model, tables, ti, table_name, table_model, columns,
                   primary_keys, foreign_keys, ci, col, error, outcome>>

\* if col["name"] in foreign_keys: column.foreign_key = ...
SetForeignKey ==
    /\ pc = "set_foreign_key"
    /\ column' = WithForeignKey(column, foreign_keys)
    /\ pc' = After(ColumnSteps, "set_foreign_key", "next_column")
    /\ UNCHANGED <<db, issued, database_model, schemas, si, schema_name,
                   schema_model, tables, ti, table_name, table_model, columns,
                   primary_keys, foreign_keys, ci, col, error, outcome>>

\* table_model.columns[col["name"]] = column
InsertColumn ==
    /\ pc = "insert_column"
    /\ table_model' = [table_model EXCEPT !.columns = Put(@, col.name, column)]
    /\ pc' = After(ColumnSteps, "insert_column", "next_column")
    /\ UNCHANGED <<db, issued, database_model, schemas, si, schema_name,
                   schema_model, tables, ti, table_name, columns, primary_keys,
                   foreign_keys, ci, col, column, error, outcome>>

\* try: indexes = self.inspector.get_indexes(...); for idx in indexes: ...
\* except Exception as e: raise SchemaValueError(msg)
GetIndexes ==
    /\ pc = "get_indexes"
    /\ issued' = Append(issued, Call("get_indexes", schema_name, table_name))
    /\ \/ /\ table_model' =
                [table_model EXCEPT !.indexes =
                    AddIndexes(@, db.facts[<<schema_name, table_name>>].indexes)]
          /\ pc' = After(TableSteps, "get_indexes", "for_table")
          /\ UNCHANGED error
       \/ /\ \E cause \in Causes :
                Raise(Raised("SchemaValueError",
                             IndexErrorMessage(schema_name, table_name, cause),
                             Some(cause),
                             Call("get_indexes", schema_name, table_name)))
          /\ UNCHANGED table_model
    /\ UNCHANGED <<db, database_model, schemas, si, schema_name, schema_model,
                   tables, ti, table_name, columns, primary_keys, foreign_keys,
                   ci, col, column, outcome>>

\* try: table_model.referenced_by = self._get_referenced_by(...)
\* except Exception as e: raise SchemaValueError(msg)
GetReferencedBy ==
    /\ pc = "get_referenced_by"
    /\ issued' = Append(issued, Call("get_referenced_by", schema_name, table_name))
    /\ \/ /\ table_model' =
                [table_model EXCEPT !.referenced_by =
                    GetReferencedByResult(
                        db.facts[<<schema_name, table_name>>].referenced_by)]
          /\ pc' = After(TableSteps, "get_referenced_by", "for_table")
          /\ UNCHANGED error
       \/ /\ \E cause \in Causes :
                Raise(Raised("SchemaValueError",
                             ReferencedByErrorMessage(schema_name, table_name, cause),
                             Some(cause),
                             Call("get_referenced_by", schema_name, table_name)))
          /\ UNCHANGED table_model
    /\ UNCHANGED <<db, database_model, schemas, si, schema_name, schema_model,
                   tables, ti, table_name, columns, primary_keys, foreign_keys,
                   ci, col, column, outcome>>

\* schema_model.tables[table_name] = table_model
AttachTable ==
    /\ pc = "attach_table"
    /\ schema_model' =
          [schema_model EXCEPT !.tables = Put(@, table_name, table_model)]
    /\ pc' = After(TableSteps, "attach_table", "for_table")
    /\ UNCHANGED <<db, issued, database_model, schemas, si, schema_name, tables,
                   ti, table_name, table_model, columns, primary_keys,
                   foreign_keys, ci, col, column, error, outcome>>

\* ------------------------------------------------------------- main ------
\* json_output = database_model.model_dump_json(...)
DumpJson ==
    /\ pc = "model_dump_json"
    /\ \/ /\ json_output' = Some(ModelDumpJson(database_model))
          /\ pc' = "open_file"
          /\ UNCHANGED error
       \/ /\ Raise(Raised("ValueError", <<"ValueError">>, None,
                          Call("model_dump_json", "", "")))
          /\ UNCHANGED json_output
    /\ UNCHANGED <<db, issued, database_model, locals, file, exit_code,
                   close_calls, session_open, engine_live>>

\* with open(JSON_DESTINATION_FILENAME, "w") as f: opening truncates the file
OpenFile ==
    /\ pc = "open_file"
    /\ \/ /\ file' = [opened |-> TRUE, content |-> None]
          /\ pc' = "write_file"
          /\ UNCHANGED error
       \/ /\ Raise(Raised("OSError", <<"OSError">>, None, Call("open", "", "")))
          /\ UNCHANGED file
    /\ UNCHANGED <<db, issued, database_model, locals, json_output, exit_code,
                   close_calls, session_open, engine_live>>

\* f.write(json_output)
WriteFile ==
    /\ pc = "write_file"
    /\ \/ /\ file' = [file EXCEPT !.content = json_output]
          /\ pc' = "finally"
          /\ UNCHANGED error
       \/ /\ Raise(Raised("OSError", <<"OSError">>, None, Call("write", "", "")))
          /\ UNCHANGED file
    /\ UNCHANGED <<db, issued, database_model, locals, json_output, exit_code,
                   close_calls, session_open, engine_live>>

\* except Exception as e: print(...); sys.exit(1)
Except ==
    /\ pc = "except"
    /\ exit_code' = Some(ExitCodeOnError)
    /\ pc' = OnSysExit
    /\ UNCHANGED <<db, issued, database_model, locals, error, json_output, file,
                   close_calls, session_open, engine_live>>

\* finally: extractor.close(), which closes the session and disposes of the
\* engine; then the pending SystemExit ends the process, or main goes on
Close ==
    /\ pc = "finally"
    /\ close_calls' = close_calls + 1
    /\ session_open' = FALSE
    /\ engine_live' = FALSE
    /\ pc' = IF exit_code = None THEN "success" ELSE "exit"
    /\ UNCHANGED <<db, issued, database_model, locals, error, json_output, file,
                   exit_code>>

\* print("Documentacao gerada com sucesso ..."); main returns
Success ==
    /\ pc = "success"
    /\ exit_code' = Some(0)
    /\ pc' = "exit"
    /\ UNCHANGED <<db, issued, database_model, locals, error, json_output, file,
                   close_calls, session_open, engine_live>>

Next ==
    \/ GetSchemaNames
    \/ ForSchema
    \/ ReturnModel
    \/ ForTable
    \/ AttachSchema
    \/ GetColumns
    \/ GetPrimaryKeys
    \/ GetForeignKeys
    \/ ForColumn
    \/ NextColumn
    \/ ConstructColumn
    \/ SetForeignKey
    \/ InsertColumn
    \/ GetIndexes
    \/ GetReferencedBy
    \/ AttachTable
    \/ DumpJson
    \/ OpenFile
    \/ WriteFile
    \/ Except
    \/ Close
    \/ Success

Spec == Init /\ [][Next]_vars

\* ----------------------------------------------------------- claims ------
\* the statements of main that follow the return of extract_schema
AfterExtraction == {"model_dump_json", "open_file", "write_file", "success"}

\* the calls main makes once it holds the model
MainCalls == {"model_dump_json", "open", "write"}

\* extract_schema has returned its model
ExtractSucceeded ==
    \/ pc \in AfterExtraction
    \/ /\ pc \in {"except", "finally", "exit"}
       /\ error = None \/ error[1].call[1] \in MainCalls

RunSucceeded == pc = "exit" /\ exit_code = Some(0)

\* the tables of the returned model, as <<schema, table>>
ModelTables ==
    {p \in SchemaNames \X TableNames :
        /\ p[1] \in DOMAIN database_model.schemas
        /\ p[2] \in DOMAIN database_model.schemas[p[1]].tables}

ModelTable(p) == database_model.schemas[p[1]].tables[p[2]]

\* C1: after a successful extract_schema, a column of any table of the model
\* is flagged primary_key exactly when its name is in the list the
\* primary-key lookup returned for that schema and table.
C1_PrimaryKeyIffInLookup ==
    ExtractSucceeded =>
        \A p \in ModelTables :
            \A c \in DOMAIN ModelTable(p).columns :
                ModelTable(p).columns[c].primary_key
                    <=> c \in Range(db.facts[p].primary_keys)

\* a returned table with a composite primary key, both columns flagged
C1_Witness ==
    /\ ExtractSucceeded
    /\ \E p \in ModelTables :
          /\ Len(db.facts[p].primary_keys) = 2
          /\ Cardinality(DOMAIN ModelTable(p).columns) = 2
          /\ \A c \in DOMAIN ModelTable(p).columns :
                ModelTable(p).columns[c].primary_key

\* C2: after a successful extract_schema, a column has a foreign_key exactly
\* when its name is a key of the mapping the foreign-key lookup returned for
\* its table, and then the foreign_key is the mapping's value for that name.
C2_ForeignKeyIffInLookup ==
    ExtractSucceeded =>
        \A p \in ModelTables :
            LET fks == GetForeignKeysResult(db.facts[p].foreign_keys) IN
            \A c \in DOMAIN ModelTable(p).columns :
                LET fk == ModelTable(p).columns[c].foreign_key IN
                /\ fk # None <=> c \in DOMAIN fks
                /\ fk # None => fk[1] = fks[c]

\* a returned table with one column that has a foreign key and one without
C2_Witness ==
    /\ ExtractSucceeded
    /\ \E p \in ModelTables :
          /\ \E c \in DOMAIN ModelTable(p).columns :
                ModelTable(p).columns[c].foreign_key # None
          /\ \E c \in DOMAIN ModelTable(p).columns :
                ModelTable(p).columns[c].foreign_key = None

\* every index the catalog reports under another name than "PRIMARY" is in
\* the table's indexes under its name
HoldsReportedIndexes(t, rows) ==
    \A i \in DOMAIN rows :
        rows[i].name # "PRIMARY" =>
            /\ rows[i].name \in DOMAIN t.indexes
            /\ t.indexes[rows[i].name].name = rows[i].name

\* C3: in every state of a run no table holds an index named "PRIMARY",
\* neither the table being built nor a table of the schema being built nor a
\* table of the model; a table that has been stored holds every other index
\* the catalog reported for it, under the index's name.
C3_NoPrimaryIndex ==
    /\ "PRIMARY" \notin DOMAIN table_model.indexes
    /\ \A t \in DOMAIN schema_model.tables :
          /\ "PRIMARY" \notin DOMAIN schema_model.tables[t].indexes
          /\ HoldsReportedIndexes(schema_model.tables[t],
                                  db.facts[<<schema_name, t>>].indexes)
    /\ \A p \in ModelTables :
          /\ "PRIMARY" \notin DOMAIN ModelTable(p).indexes
          /\ HoldsReportedIndexes(ModelTable(p), db.facts[p].indexes)

\* a returned table for which the catalog reported "PRIMARY" and another index
C3_Witness ==
    /\ RunSucceeded
    /\ \E p \in ModelTables :
          /\ \E i \in DOMAIN db.facts[p].indexes :
                db.facts[p].indexes[i].name = "PRIMARY"
          /\ DOMAIN ModelTable(p).indexes # {}

\* the index lookup or the reverse-reference lookup has failed
WrappedLookups == {"get_indexes", "get_referenced_by"}

WrappedLookupFailed == error # None /\ error[1].call[1] \in WrappedLookups

\* C4: once the index lookup or the reverse-reference lookup of a table has
\* failed, the run is aborting: that call is the last catalog call issued,
\* the table and its schema are not stored and no other table or schema is
\* taken up, nothing is serialized, the output file is neither opened nor
\* written, and the process ends with a non-zero exit code.
C4_LookupFailureAbortsRun ==
    WrappedLookupFailed =>
        /\ pc \in {"except", "finally", "exit"}
        /\ Last(issued) = error[1].call
        /\ schema_name = error[1].call[2]
        /\ table_name = error[1].call[3]
        /\ table_name \notin DOMAIN schema_model.tables
        /\ schema_name \notin DOMAIN database_model.schemas
        /\ json_output = None
        /\ ~file.opened
        /\ file.content = None
        /\ pc = "exit" => exit_code # None /\ exit_code[1] # 0

\* the run has ended after the index lookup failed for the second table of
\* the second schema
C4_Witness ==
    /\ pc = "exit"
    /\ error # None
    /\ error[1].call[1] = "get_indexes"
    /\ si = 2
    /\ ti = 2

\* C5: when the process has ended, on any path, close() has run exactly once
\* and the session and the engine are released; close() never runs twice.
C5_ClosedOnceOnEveryExit ==
    /\ close_calls <= 1
    /\ pc = "exit" =>
          /\ close_calls = 1
          /\ ~session_open
          /\ ~engine_live

\* the run has ended after the file write failed, and close() has run
C5_Witness ==
    /\ pc = "exit"
    /\ error # None
    /\ error[1].call[1] = "write"
    /\ close_calls = 1

\* C6: the error raised when the index lookup or the reverse-reference lookup
\* fails for table t of schema s is a SchemaValueError whose message holds s,
\* t and the underlying cause.
C6_WrappedErrorCarriesContext ==
    WrappedLookupFailed =>
        /\ error[1].type = "SchemaValueError"
        /\ error[1].context # None
        /\ error[1].call[2] \in Range(error[1].msg)
        /\ error[1].call[3] \in Range(error[1].msg)
        /\ error[1].context[1] \in Range(error[1].msg)

\* C7: the referenced_by mapping of a returned table has one entry for each
\* referencing table among the rows of the reverse-reference query and no
\* other; the entry's table is its key, and its column and constraint are
\* those of the last row of that referencing table.
C7_ReferencedByLastRowWins ==
    ExtractSucceeded =>
        \A p \in ModelTables :
            LET rows == db.facts[p].referenced_by
                refs == ModelTable(p).referenced_by
            IN  /\ DOMAIN refs = {rows[i].source_table : i \in DOMAIN rows}
                /\ \A k \in DOMAIN refs :
                      \E i \in DOMAIN rows :
                          /\ rows[i].source_table = k
                          /\ \A j \in DOMAIN rows :
                                j > i => rows[j].source_table # k
                          /\ refs[k] = [table |-> k,
                                        columns |-> <<rows[i].source_column>>,
                                        constraint |-> rows[i].constraint_name]

\* a returned table referenced by two rows of one table with two constraints
C7_Witness ==
    /\ ExtractSucceeded
    /\ \E p \in ModelTables :
          LET rows == db.facts[p].referenced_by IN
          /\ Len(rows) = 2
          /\ rows[1].source_table = rows[2].source_table
          /\ rows[1].constraint_name # rows[2].constraint_name
          /\ ModelTable(p).referenced_by[rows[2].source_table].constraint
                = rows[2].constraint_name

\* C8: after a successful extract_schema the schemas of the model are the
\* schema names the catalog lists without "information_schema" and
\* "pg_catalog", and the tables of each are the table names listed for it.
C8_SchemasAndTablesExact ==
    ExtractSucceeded =>
        /\ DOMAIN database_model.schemas
              = Range(db.schemas) \ {"information_schema", "pg_catalog"}
        /\ \A s \in DOMAIN database_model.schemas :
              DOMAIN database_model.schemas[s].tables = Range(db.tables[s])

\* a returned model of a catalog that lists pg_catalog and a schema with two
\* tables
C8_Witness ==
    /\ ExtractSucceeded
    /\ "pg_catalog" \in Range(db.schemas)
    /\ \E s \in DOMAIN database_model.schemas :
          Cardinality(DOMAIN database_model.schemas[s].tables) = 2

\* the five lookups of a table, in the order the claim gives
LookupOrder ==
    <<"get_columns", "get_primary_keys", "get_foreign_keys", "get_indexes",
      "get_referenced_by">>

TableLookups(s, t) == [i \in DOMAIN LookupOrder |-> Call(LookupOrder[i], s, t)]

RECURSIVE SchemaLookups(_, _)
SchemaLookups(s, ts) ==
    IF ts = <<>> THEN <<>>
    ELSE TableLookups(s, Head(ts)) \o SchemaLookups(s, Tail(ts))

RECURSIVE CatalogLookups(_)
CatalogLookups(ss) ==
    IF ss = <<>> THEN <<>>
    ELSE (IF Head(ss) \in {"information_schema", "pg_catalog"} THEN <<>>
          ELSE SchemaLookups(Head(ss), db.tables[Head(ss)]))
         \o CatalogLookups(Tail(ss))

\* the lookups issued so far
LookupsIssued == SelectSeq(issued, LAMBDA c : c[1] \in Range(LookupOrder))

IsPrefix(a, b) == Len(a) <= Len(b) /\ \A i \in DOMAIN a : a[i] = b[i]

\* C9: the lookups issued so far are an initial part of the sequence that has,
\* for each schema in turn and each of its tables in turn, the column listing,
\* the primary-key, foreign-key, index and reverse-reference lookup once each
\* in that order; after a catalog call has failed it stays the last call
\* issued; a successful extraction has issued the whole sequence.
C9_LookupsSequentialOnce ==
    /\ IsPrefix(LookupsIssued, CatalogLookups(db.schemas))
    /\ error # None /\ error[1].call[1] \notin MainCalls
          => Last(issued) = error[1].call
    /\ ExtractSucceeded => LookupsIssued = CatalogLookups(db.schemas)

\* a successful run over three tables or more
C9_Witness ==
    /\ RunSucceeded
    /\ Len(LookupsIssued) >= 3 * Len(LookupOrder)

\* what is stored in a container stays as it is
Frozen(before, after) ==
    \A k \in DOMAIN before : k \in DOMAIN after /\ after[k] = before[k]

\* the keys a step adds to a container
Added(before, after) == DOMAIN after \ DOMAIN before

\* a table that holds all its catalog reports
CompleteTable(t, facts) ==
    /\ DOMAIN t.columns = {facts.columns[i].name : i \in DOMAIN facts.columns}
    /\ HoldsReportedIndexes(t, facts.indexes)
    /\ DOMAIN t.referenced_by
          = {facts.referenced_by[i].source_table : i \in DOMAIN facts.referenced_by}

\* C10: every step leaves what is stored in the model, in the schema being
\* built and in the table being built as it is (a new schema or table object
\* starts empty), and writes to no schema, table or column object that has
\* been stored; a column enters its table with its foreign_key decided, a
\* table enters its schema with its columns, indexes and referenced_by
\* complete, and a schema enters the model with all its tables.
C10_AppendOnlyAssembly ==
    [][/\ Frozen(database_model.schemas, database_model'.schemas)
       /\ schema_model' = Schema
             \/ Frozen(schema_model.tables, schema_model'.tables)
       /\ table_model' = Table
             \/ Frozen(table_model.columns, table_model'.columns)
       /\ schema_name \in DOMAIN database_model.schemas
             => schema_model' = schema_model \/ schema_model' = Schema
       /\ table_name \in DOMAIN schema_model.tables
             => table_model' = table_model \/ table_model' = Table
       /\ col # None /\ col.name \in DOMAIN table_model.columns
             => column' = column \/ pc = "new_column"
       /\ \A c \in Added(table_model.columns, table_model'.columns) :
             /\ table_model'.columns[c] = column
             /\ column.foreign_key # None <=> c \in DOMAIN foreign_keys
       /\ \A t \in Added(schema_model.tables, schema_model'.tables) :
             /\ schema_model'.tables[t] = table_model
             /\ CompleteTable(table_model, db.facts[<<schema_name, t>>])
       /\ \A s \in Added(database_model.schemas, database_model'.schemas) :
             /\ database_model'.schemas[s] = schema_model
             /\ DOMAIN schema_model.tables = Range(db.tables[s])
      ]_vars

\* a finished run whose model has a schema of two tables, one of them with a
\* column that has a foreign key and one of them referenced by another table
C10_Witness ==
    /\ RunSucceeded
    /\ \E s \in DOMAIN database_model.schemas :
          LET ts == database_model.schemas[s].tables IN
          /\ Cardinality(DOMAIN ts) = 2
          /\ \E t \in DOMAIN ts : \E c \in DOMAIN ts[t].columns :
                ts[t].columns[c].foreign_key # None
          /\ \E t \in DOMAIN ts : DOMAIN ts[t].referenced_by # {}

====
